---- MODULE Spec2Model ----
(***************************************************************************)
(* First-aid box inventory of the college clinic application:              *)
(*   app/utils_college.py      tenant resolution and the access guard      *)
(*   app/routers/first_aid.py  boxes, box items and the stock ledger       *)
(*                                                                         *)
(* Strings are sequences of one-character strings, so that strip() and     *)
(* lower() are computed and not assumed.  The empty sequence stands for a  *)
(* value Python treats as false (None or '').                              *)
(***************************************************************************)
EXTENDS Integers, Sequences, FiniteSets, TLC

\* ------------------------------------------------------------------ bounds
\* Boxes the table can hold (the legacy box of Init included).
MaxBoxes == 2
\* Rows of login_logs ever inserted.
MaxLogs == 2
\* Box items ever inserted (the autoincrement id never exceeds it).
MaxItems == 1
\* Largest quantity a form submits and largest opening balance of a stock row.
MaxQty == 1
\* Detail views that stamp last_reviewed_at (values of the clock).
MaxClock == 1

\* ----------------------------------------------------------------- strings
None == <<>>

Truthy(s) == s # <<>>

LowerChar(c) ==
    IF c = "A" THEN "a" ELSE IF c = "B" THEN "b" ELSE c

\* str.lower()
Lower(s) == [i \in 1..Len(s) |-> LowerChar(s[i])]

RECURSIVE LStrip(_)
LStrip(s) ==
    IF s # <<>> /\ Head(s) = " " THEN LStrip(Tail(s)) ELSE s

RECURSIVE RStrip(_)
RStrip(s) ==
    IF s # <<>> /\ s[Len(s)] = " " THEN RStrip(SubSeq(s, 1, Len(s) - 1)) ELSE s

\* str.strip()
Strip(s) == RStrip(LStrip(s))

\* The college values users and rows carry: unset, two spellings of one
\* college (they differ in case and surrounding blanks) and another college.
Colleges == { None, <<"A">>, <<" ", "a">>, <<"B">> }

\* ------------------------------------------------------------------- users
\* models.User: the role flags and the college claim of each role.
Users ==
    [ is_admin : BOOLEAN, is_doc : BOOLEAN, is_college_admin : BOOLEAN,
      is_hod : BOOLEAN, doctor_college : Colleges,
      college_admin_college : Colleges, hod_college : Colleges ]

\* A resolution that uses up the doctor's claim it read.
UserAfterResolveConsuming(user) == [user EXCEPT !.doctor_college = None]

\* The user object once get_user_college has returned: the function reads the
\* flags and the claims and assigns to none of them.
UserAfterResolve(user) == user

\* A resolution that asks the head of department before the doctor.
get_user_college_hod_first(user) ==
    IF user.is_admin THEN None
    ELSE IF user.is_hod /\ Truthy(user.hod_college) THEN user.hod_college
    ELSE IF user.is_doc /\ Truthy(user.doctor_college) THEN user.doctor_college
    ELSE IF user.is_college_admin /\ Truthy(user.college_admin_college)
        THEN user.college_admin_college
    ELSE None

get_user_college(user) ==
    IF user.is_admin THEN None
    ELSE IF user.is_doc /\ Truthy(user.doctor_college) THEN user.doctor_college
    ELSE IF user.is_college_admin /\ Truthy(user.college_admin_college)
        THEN user.college_admin_college
    ELSE IF user.is_hod /\ Truthy(user.hod_college) THEN user.hod_college
    ELSE None

verify_college_access(user, college) ==
    IF ~Truthy(college) THEN FALSE
    ELSE IF user.is_admin THEN TRUE
    ELSE LET user_college == get_user_college(user)
         IN  IF ~Truthy(user_college) THEN FALSE
             ELSE Lower(Strip(user_college)) = Lower(Strip(college))

\* One role's branch of validate_college_assignment.
RoleAccess(claim, college, none_msg, other_msg, ok_msg) ==
    IF ~Truthy(claim) THEN [is_valid |-> FALSE, message |-> none_msg]
    ELSE IF Lower(Strip(claim)) # Lower(Strip(college))
        THEN [is_valid |-> FALSE, message |-> other_msg]
    ELSE [is_valid |-> TRUE, message |-> ok_msg]

\* A guard that accepts a match of any role the user holds.
validate_any_role(user, college) ==
    IF ~Truthy(college)
        THEN [is_valid |-> FALSE, message |-> "College not specified"]
    ELSE IF user.is_admin \/ \E c \in
              {IF user.is_doc THEN user.doctor_college ELSE None,
               IF user.is_college_admin THEN user.college_admin_college ELSE None,
               IF user.is_hod THEN user.hod_college ELSE None} :
              Truthy(c) /\ Lower(Strip(c)) = Lower(Strip(college))
        THEN [is_valid |-> TRUE, message |-> "access"]
    ELSE [is_valid |-> FALSE, message |-> "no access"]

validate_college_assignment(user, college) ==
    IF ~Truthy(college)
        THEN [is_valid |-> FALSE, message |-> "College not specified"]
    ELSE IF user.is_admin
        THEN [is_valid |-> TRUE, message |-> "Admin has full access to all colleges"]
    ELSE IF user.is_doc
        THEN RoleAccess(user.doctor_college, college,
                 "Doctor has no college assigned",
                 "Doctor can only access their assigned college",
                 "Doctor has access to college")
    ELSE IF user.is_college_admin
        THEN RoleAccess(user.college_admin_college, college,
                 "College admin has no college assigned",
                 "College admin can only access their assigned college",
                 "College admin has access to college")
    ELSE IF user.is_hod
        THEN RoleAccess(user.hod_college, college,
                 "HOD has no college assigned",
                 "HOD can only access their assigned college",
                 "HOD has access to college")
    ELSE [is_valid |-> FALSE,
          message |-> "User has no recognized role with college access"]

\* The HTTP status prevent_cross_college_access raises, 0 when it returns.
prevent_cross_college_access(user, target_college) ==
    IF ~Truthy(target_college) THEN 400
    ELSE IF ~validate_college_assignment(user, target_college).is_valid THEN 403
    ELSE 0

\* query.filter(model_class.college_id == user_college), on the rows of a
\* table given as a sequence: the indices of the rows the query returns.
filter_by_college(rows, user) ==
    IF user.is_admin THEN 1..Len(rows)
    ELSE LET user_college == get_user_college(user)
         IN  IF ~Truthy(user_college) THEN 1..Len(rows)
             ELSE { i \in 1..Len(rows) : rows[i].college_id = user_college }

\* The users that get_user_college and prevent_cross_college_access tell
\* apart: the handlers read current_user through these two calls alone, so
\* one user of each class acts for the class.
UserClass(user) ==
    [ user_college |-> get_user_college(user),
      access |-> [c \in Colleges |-> prevent_cross_college_access(user, c)] ]

Actors ==
    { CHOOSE u \in Users : UserClass(u) = k : k \in { UserClass(u) : u \in Users } }

\* ---------------------------------------------------------------- database
VARIABLES
    drugs,               \* catalog rows: id, drug_code, college_id
    first_aid_boxes,     \* sequence of boxes, a box's id is its index
    first_aid_box_items, \* set of item rows
    next_item_id,        \* autoincrement of first_aid_box_items.id
    warehouse_stock,     \* sequence of rows: drug_id, balance_qty, college
    pharmacy_stock,      \* sequence of rows: drug_id, balance_qty, college
    drug_transactions,   \* sequence of rows, in insertion order
    last,                \* the last request and its response (history)
    probe,               \* one call of the guard functions (GuardSpec)
    workers,             \* the add_item requests in flight (RaceSpec)
    accounts             \* the users table and login_logs (LoginSpec)

vars ==
    << drugs, first_aid_boxes, first_aid_box_items, next_item_id,
       warehouse_stock, pharmacy_stock, drug_transactions, last, probe,
       workers, accounts >>

tables ==
    << drugs, first_aid_boxes, first_aid_box_items, next_item_id,
       warehouse_stock, pharmacy_stock, drug_transactions >>

\* Form values of drug_code: none, the catalog's code, a code of no drug.
DrugCodes == { "", "D1", "DX" }

\* Form values of quantity (an int: no range is enforced).
Quantities == -1..MaxQty

Catalog ==
    { [id |-> 1, drug_code |-> "D1", college_id |-> <<"B">>] }

\* SELECT id FROM drugs WHERE drug_code = :code
DrugRows(drug_code) == { d \in drugs : d.drug_code = drug_code }

DrugId(drug_code) == (CHOOSE d \in DrugRows(drug_code) : TRUE).id

\* SELECT id FROM <stock table> WHERE drug_id = :did  (fetchone)
HasRow(stock, did) == \E i \in 1..Len(stock) : stock[i].drug_id = did

RECURSIVE Balance(_, _)
\* The quantity a stock table records for a drug, no row counting as 0.
Balance(stock, did) ==
    IF stock = <<>> THEN 0
    ELSE (IF Head(stock).drug_id = did THEN Head(stock).balance_qty ELSE 0)
         + Balance(Tail(stock), did)

\* An opening stock table: per drug no row, or one row of the drug's college.
OpeningStock ==
    { s \in UNION { [1..n -> [drug_id : {d.id : d \in Catalog},
                              balance_qty : {MaxQty},
                              college : Colleges]] : n \in 0..Cardinality(Catalog) } :
        /\ \A i \in 1..Len(s) : \E d \in Catalog :
               d.id = s[i].drug_id /\ d.college_id = s[i].college
        /\ \A i, j \in 1..Len(s) : i < j => s[i].drug_id < s[j].drug_id }

NoUser ==
    [ is_admin |-> FALSE, is_doc |-> FALSE, is_college_admin |-> FALSE,
      is_hod |-> FALSE, doctor_college |-> None,
      college_admin_college |-> None, hod_college |-> None ]

\* The tables as a request finds them.
Snapshot ==
    [ accounts |-> accounts,
      drugs |-> drugs,
      first_aid_boxes |-> first_aid_boxes,
      first_aid_box_items |-> first_aid_box_items,
      next_item_id |-> next_item_id,
      warehouse_stock |-> warehouse_stock,
      pharmacy_stock |-> pharmacy_stock,
      drug_transactions |-> drug_transactions ]

\* The users table and login_logs before any user is stored.
\*   users        the ids of the rows of users
\*   login_logs   rows: id, user_id (NOT NULL, references users.id)
\*   next_log_id  autoincrement of login_logs.id
\*   on_delete    the ON DELETE action of the foreign key of login_logs
NoAccounts ==
    [ users |-> {}, login_logs |-> {}, next_log_id |-> 1,
      on_delete |-> "CASCADE" ]

\* No HTTPException was raised.
NoDetail == [status_code |-> 0, detail |-> ""]

\* What the last request was and what it answered (history).
\*   op            the handler
\*   is_admin, user_college
\*                 the user's flag and resolved college, in the answers about
\*                 a box, in those of a write and in the tenant refusals
\*   status        the HTTP status
\*   reason        the error, or the msg of the redirect
\*   box_id, item_id, drug_code, quantity
\*                 of a write and of an add the stock check refused
\*   stock_raises  the stock lookup raised; ledger_fails: a statement of the
\*                 stock update raised
\*   ledger        "none" (not reached), "skipped" (no code, or no drug of
\*                 that code), "applied" or "failed"
\*   detail        the detail of the HTTPException a delete answers with
\*   boxes         the ids of the boxes a listing shows
\*   items         the item rows a public view shows
\*   medicine_id, college_id, db_raises, returned
\*                 of a call of the functions of utils_medicine_college: its
\*                 arguments, whether a statement raised, what it returned
\*   user_id       the user a deletion names (returned: it succeeded)
\*   before        the tables as the request found them
\*   opening       the two stock tables before the first request
\*   after_add     a delete that directly follows the add of its item;
\*                 add_before, add_ledger: that add's before and ledger
Response(op) ==
    [ op |-> op, is_admin |-> FALSE, user_college |-> None,
      status |-> 0, reason |-> "", box_id |-> 0, item_id |-> 0,
      drug_code |-> "", quantity |-> 0,
      stock_raises |-> FALSE, ledger_fails |-> FALSE, ledger |-> "none",
      detail |-> NoDetail, boxes |-> {}, items |-> {},
      medicine_id |-> 0, college_id |-> None, db_raises |-> FALSE,
      returned |-> FALSE, user_id |-> 0,
      before |-> Snapshot,
      after_add |-> FALSE, add_before |-> Snapshot, add_ledger |-> "none",
      opening |-> IF op = "init"
                      THEN [ warehouse_stock |-> warehouse_stock,
                             pharmacy_stock |-> pharmacy_stock ]
                      ELSE last.opening ]

\* One call of the guard functions, and a second get_user_college after it.
\*   given     the user as it was before the first call
\*   user      the user object the calls are made on
\*   again, resolved_again
\*             the second call was made, what it returned
NoProbe == [ given |-> NoUser, user |-> NoUser, college |-> None,
             called |-> FALSE,
             resolved |-> None, verify |-> FALSE, validate |-> FALSE,
             prevent |-> 0, again |-> FALSE, resolved_again |-> None ]

\* The add_item requests that are served at the same time, each by its own
\* worker on its own session.
Workers == {1, 2}

\* What a session has written and not yet committed on a stock table: the
\* rows an UPDATE rewrote, by index, and the rows an INSERT added.
NoWrites == [ updated |-> {}, inserted |-> <<>> ]

\* A worker that serves no request yet.
\*   pc        the statement of add_item it is to run next
\*   overlaps  it began while another request was in flight
\*   outcome   "refused" by the stock check, "applied" or "failed" (a
\*             statement of the stock update raised), "skipped"
IdleWorker ==
    [ pc |-> "idle", overlaps |-> FALSE, outcome |-> "none",
      user_college |-> None, box_id |-> 0, quantity |-> 0, item_id |-> 0,
      drug_code |-> "", drug_id |-> 0, existing_warehouse |-> FALSE, existing_pharmacy |-> FALSE,
      warehouse_writes |-> NoWrites, pharmacy_writes |-> NoWrites,
      transaction_writes |-> <<>> ]

NoWorkers == [ w \in Workers |-> IdleWorker ]

\* The boxes of the ledger's runs: a box of before the college_id migration
\* and a box that a user of college A created.
LegacyBox == [college_id |-> None, last_reviewed_at |-> 0]

BoxOfA == [college_id |-> <<"A">>, last_reviewed_at |-> 0]

Init ==
    /\ drugs = Catalog
    /\ first_aid_boxes = << LegacyBox, BoxOfA >>
    /\ first_aid_box_items = {}
    /\ next_item_id = 1
    /\ warehouse_stock \in OpeningStock
    /\ pharmacy_stock \in OpeningStock
    /\ drug_transactions = <<>>
    /\ accounts = NoAccounts
    /\ last = Response("init")
    /\ probe = NoProbe
    /\ workers = NoWorkers

\* ------------------------------------------------------------------ ledger
\* The source and destination labels of a drug_transactions row:
\* 'warehouse' and f'box_{box_id}'.
WarehouseLabel == [kind |-> "warehouse", box_id |-> 0]

BoxLabel(box_id) == [kind |-> "box", box_id |-> box_id]

\* UPDATE <stock> SET balance_qty = balance_qty - :qty, college = :college
\* WHERE drug_id = :did
DebitRows(stock, did, qty, college) ==
    [ i \in 1..Len(stock) |->
        IF stock[i].drug_id = did
            THEN [stock[i] EXCEPT !.balance_qty = @ - qty, !.college = college]
            ELSE stock[i] ]

\* INSERT INTO <stock> (drug_id, balance_qty, college) VALUES (:did, :qty, :college)
InsertRow(stock, did, qty, college) ==
    Append(stock, [drug_id |-> did, balance_qty |-> qty, college |-> college])

\* A debit that seeds a new row with the quantity itself.
DebitOrInsertUnsigned(stock, did, qty, college) ==
    IF HasRow(stock, did)
        THEN DebitRows(stock, did, qty, college)
        ELSE InsertRow(stock, did, qty, college)

\* Steps 2 and 3 of add_item's stock update, for one stock table.
DebitOrInsert(stock, did, qty, college) ==
    IF HasRow(stock, did)
        THEN DebitRows(stock, did, qty, college)
        ELSE InsertRow(stock, did, -qty, college)

\* A credit of the opposite sign.
CreditRowsNegated(stock, did, qty) ==
    [ i \in 1..Len(stock) |->
        IF stock[i].drug_id = did
            THEN [stock[i] EXCEPT !.balance_qty = @ - qty]
            ELSE stock[i] ]

\* UPDATE <stock> SET balance_qty = balance_qty + :qty WHERE drug_id = :did
CreditRows(stock, did, qty) ==
    [ i \in 1..Len(stock) |->
        IF stock[i].drug_id = did
            THEN [stock[i] EXCEPT !.balance_qty = @ + qty]
            ELSE stock[i] ]

\* Step 4 of add_item's stock update.
DebitTransaction(did, drug_code, quantity, box_id) ==
    [ drug_id |-> did, drug_code |-> drug_code,
      transaction_type |-> "warehouse_to_box", quantity_change |-> -quantity,
      source |-> WarehouseLabel, destination |-> BoxLabel(box_id) ]

\* Step 4 of delete_item's stock update.
ReturnTransaction(did, drug_code, quantity, box_id) ==
    [ drug_id |-> did, drug_code |-> drug_code,
      transaction_type |-> "box_return", quantity_change |-> quantity,
      source |-> BoxLabel(box_id), destination |-> WarehouseLabel ]

\* excel_data_reference.get_drug_stock: the stock record of a drug code (the
\* recorded Pharmacy quantity), no record when no drug has the code.
get_drug_stock(drug_code) ==
    IF DrugRows(drug_code) = {} THEN {}
    ELSE { [stock_qty |-> Balance(pharmacy_stock, DrugId(drug_code))] }

\* A stock check that only warns.
StockCheckAdvisory(drug_code, quantity, stock_raises) == FALSE

\* add_item's stock check: TRUE when it answers with the error redirect.  An
\* exception of the lookup (stock_raises) is swallowed and lets the add pass.
StockCheckRejects(drug_code, quantity, stock_raises) ==
    /\ drug_code # ""
    /\ ~stock_raises
    /\ \E drug_stock \in get_drug_stock(drug_code) : quantity > drug_stock.stock_qty

\* ---------------------------------------------------------------- handlers
\* An answer that wrote nothing.
Answer(response, status, reason) ==
    /\ last' = [response EXCEPT !.status = status, !.reason = reason]
    /\ UNCHANGED tables

\* The answer of a handler to a user about a box.
BoxResponse(op, user, box_id) ==
    [Response(op) EXCEPT !.is_admin = user.is_admin,
                         !.user_college = get_user_college(user),
                         !.box_id = box_id]

\* datetime.now(): not before any stamp already stored.
Now == { t \in 1..MaxClock :
           \A b \in 1..Len(first_aid_boxes) : first_aid_boxes[b].last_reviewed_at <= t }

\* if box.college_id: prevent_cross_college_access(current_user, box.college_id)
\* The status raised, 0 when the handler goes on.
BoxAccess(user, box_id) ==
    IF Truthy(first_aid_boxes[box_id].college_id)
        THEN prevent_cross_college_access(user, first_aid_boxes[box_id].college_id)
        ELSE 0

\* box.items, the relationship of models.FirstAidBox: the items whose box_id
\* is the box's id.
BoxItems(box_id) == { it \in first_aid_box_items : it.box_id = box_id }

\* A public view that stamps the box as the detail view does.
box_public_detail_stamping(box_id) ==
    /\ box_id \in 1..Len(first_aid_boxes)
    /\ \E now \in Now :
         first_aid_boxes' =
             [first_aid_boxes EXCEPT ![box_id].last_reviewed_at = now]
    /\ last' = [Response("box_public_detail") EXCEPT
                   !.box_id = box_id, !.status = 200,
                   !.items = BoxItems(box_id)]
    /\ UNCHANGED << drugs, first_aid_box_items, next_item_id,
                    warehouse_stock, pharmacy_stock, drug_transactions >>

\* GET /first-aid/boxes/{box_id}/public: no user is asked for.
box_public_detail(box_id) ==
    IF box_id \notin 1..Len(first_aid_boxes)
        THEN Answer([Response("box_public_detail") EXCEPT !.box_id = box_id],
                    404, "box_not_found")
    ELSE Answer([Response("box_public_detail") EXCEPT
                    !.box_id = box_id, !.items = BoxItems(box_id)],
                200, "")

\* GET /first-aid/boxes
boxes_list(user) ==
    Answer([BoxResponse("boxes_list", user, 0) EXCEPT
               !.boxes = filter_by_college(first_aid_boxes, user)],
           200, "")

\* A creation that does not ask whether the creator has a college.
boxes_create_unchecked(user) ==
    /\ Len(first_aid_boxes) < MaxBoxes
    /\ first_aid_boxes' = Append(first_aid_boxes,
           [college_id |-> get_user_college(user), last_reviewed_at |-> 0])
    /\ last' = [BoxResponse("boxes_create", user, Len(first_aid_boxes) + 1)
                   EXCEPT !.status = 303]
    /\ UNCHANGED << drugs, first_aid_box_items, next_item_id,
                    warehouse_stock, pharmacy_stock, drug_transactions >>

\* POST /first-aid/boxes/create
boxes_create(user) ==
    LET user_college == get_user_college(user)
    IN  IF ~Truthy(user_college)
            THEN Answer(BoxResponse("boxes_create", user, 0), 400, "no_college")
        ELSE /\ Len(first_aid_boxes) < MaxBoxes
             /\ first_aid_boxes' = Append(first_aid_boxes,
                    [college_id |-> user_college, last_reviewed_at |-> 0])
             /\ last' = [BoxResponse("boxes_create", user, Len(first_aid_boxes) + 1)
                            EXCEPT !.status = 303]
             /\ UNCHANGED << drugs, first_aid_box_items, next_item_id,
                             warehouse_stock, pharmacy_stock, drug_transactions >>

\* A detail view that stamps every box.
box_detail_stamp_all(user, box_id) ==
    IF box_id \notin 1..Len(first_aid_boxes)
        THEN Answer(BoxResponse("box_detail", user, box_id), 404, "box_not_found")
    ELSE IF BoxAccess(user, box_id) # 0
        THEN Answer(BoxResponse("box_detail", user, box_id),
                    BoxAccess(user, box_id), "forbidden")
    ELSE /\ \E now \in Now :
              first_aid_boxes' =
                  [b \in 1..Len(first_aid_boxes) |->
                      [first_aid_boxes[b] EXCEPT !.last_reviewed_at = now]]
         /\ last' = [BoxResponse("box_detail", user, box_id) EXCEPT !.status = 200]
         /\ UNCHANGED << drugs, first_aid_box_items, next_item_id,
                         warehouse_stock, pharmacy_stock, drug_transactions >>

\* A detail view that stamps the box before it checks the access.
box_detail_stamp_first(user, box_id) ==
    /\ box_id \in 1..Len(first_aid_boxes)
    /\ \E now \in Now :
         first_aid_boxes' =
             [first_aid_boxes EXCEPT ![box_id].last_reviewed_at = now]
    /\ last' = [BoxResponse("box_detail", user, box_id) EXCEPT
                   !.status = IF BoxAccess(user, box_id) # 0
                                  THEN BoxAccess(user, box_id) ELSE 200,
                   !.reason = IF BoxAccess(user, box_id) # 0
                                  THEN "forbidden" ELSE ""]
    /\ UNCHANGED << drugs, first_aid_box_items, next_item_id,
                    warehouse_stock, pharmacy_stock, drug_transactions >>

\* GET /first-aid/boxes/{box_id}
box_detail(user, box_id) ==
    IF box_id \notin 1..Len(first_aid_boxes)
        THEN Answer(BoxResponse("box_detail", user, box_id), 404, "box_not_found")
    ELSE IF BoxAccess(user, box_id) # 0
        THEN Answer(BoxResponse("box_detail", user, box_id),
                    BoxAccess(user, box_id), "forbidden")
    ELSE /\ \E now \in Now :
              first_aid_boxes' =
                  [first_aid_boxes EXCEPT ![box_id].last_reviewed_at = now]
         /\ last' = [BoxResponse("box_detail", user, box_id) EXCEPT !.status = 200]
         /\ UNCHANGED << drugs, first_aid_box_items, next_item_id,
                         warehouse_stock, pharmacy_stock, drug_transactions >>

\* The three ledger tables after the statements of add_item's stock update.
AddLedger(did, drug_code, quantity, user_college, box_id) ==
    [ warehouse_stock |-> DebitOrInsert(warehouse_stock, did, quantity, user_college),
      pharmacy_stock |-> DebitOrInsert(pharmacy_stock, did, quantity, user_college),
      drug_transactions |-> Append(drug_transactions,
          DebitTransaction(did, drug_code, quantity, box_id)) ]

\* A stock update of delete_item that takes the last record off the log.
DeleteLedgerErasing(did, drug_code, quantity, box_id) ==
    [ warehouse_stock |-> CreditRows(warehouse_stock, did, quantity),
      pharmacy_stock |-> CreditRows(pharmacy_stock, did, quantity),
      drug_transactions |->
          SubSeq(drug_transactions, 1, Len(drug_transactions) - 1) ]

\* The three ledger tables after the statements of delete_item's stock update.
DeleteLedger(did, drug_code, quantity, box_id) ==
    [ warehouse_stock |-> CreditRows(warehouse_stock, did, quantity),
      pharmacy_stock |-> CreditRows(pharmacy_stock, did, quantity),
      drug_transactions |-> Append(drug_transactions,
          ReturnTransaction(did, drug_code, quantity, box_id)) ]

\* A commit that also keeps the statements of an update that found no drug.
CommitLedgerUnlessFailed(outcome, pending) ==
    IF outcome # "failed"
        THEN /\ warehouse_stock' = pending.warehouse_stock
             /\ pharmacy_stock' = pending.pharmacy_stock
             /\ drug_transactions' = pending.drug_transactions
        ELSE UNCHANGED << warehouse_stock, pharmacy_stock, drug_transactions >>

\* The ledger tables a request leaves committed: the statements run in one
\* transaction that is committed after the last of them; an exception of any
\* of them is caught and printed, the commit is not reached and the session
\* ends with the request, so none of them is kept.
CommitLedger(outcome, pending) ==
    IF outcome = "applied"
        THEN /\ warehouse_stock' = pending.warehouse_stock
             /\ pharmacy_stock' = pending.pharmacy_stock
             /\ drug_transactions' = pending.drug_transactions
        ELSE UNCHANGED << warehouse_stock, pharmacy_stock, drug_transactions >>

\* How a request's stock update ends.
LedgerOutcome(drug_code, ledger_fails) ==
    IF drug_code = "" \/ DrugRows(drug_code) = {} THEN "skipped"
    ELSE IF ledger_fails THEN "failed"
    ELSE "applied"

\* An add whose item shares the transaction of the stock update.
ItemsAfterAddOneTransaction(new_item, outcome) ==
    IF outcome = "failed" THEN first_aid_box_items
    ELSE first_aid_box_items \cup {new_item}

\* db.add(new_item); db.commit(): the item is committed before the stock update.
ItemsAfterAdd(new_item, outcome) == first_aid_box_items \cup {new_item}

\* An item that takes the college of its box.
NewItemOfBoxCollege(id, box_id, user_college, drug_code, quantity) ==
    [ id |-> id, box_id |-> box_id,
      college_id |-> first_aid_boxes[box_id].college_id,
      drug_code |-> drug_code, quantity |-> quantity ]

\* new_item = FirstAidBoxItem(box_id=box_id, college_id=user_college, ...)
NewItem(id, box_id, user_college, drug_code, quantity) ==
    [ id |-> id, box_id |-> box_id, college_id |-> user_college,
      drug_code |-> drug_code, quantity |-> quantity ]

\* add_item from the stock check on: the tenant and the access are settled.
add_item_body(user, box_id, drug_code, quantity, stock_raises, ledger_fails) ==
    LET user_college == get_user_college(user)
        response == [BoxResponse("add_item", user, box_id) EXCEPT
                        !.drug_code = drug_code, !.quantity = quantity,
                        !.stock_raises = stock_raises]
    IN  IF StockCheckRejects(drug_code, quantity, stock_raises)
            THEN Answer(response, 303, "insufficient_stock")
        ELSE LET new_item == NewItem(next_item_id, box_id, user_college,
                                     drug_code, quantity)
                 outcome == LedgerOutcome(drug_code, ledger_fails)
                 did == IF outcome = "skipped" THEN 0 ELSE DrugId(drug_code)
             IN  /\ next_item_id <= MaxItems
                 /\ first_aid_box_items' = ItemsAfterAdd(new_item, outcome)
                 /\ next_item_id' = next_item_id + 1
                 /\ CommitLedger(outcome,
                        AddLedger(did, drug_code, quantity, user_college, box_id))
                 /\ last' = [response EXCEPT
                        !.status = 303,
                        !.reason = "item_added_stock_deducted",
                        !.item_id = next_item_id,
                        !.ledger_fails = ledger_fails, !.ledger = outcome]
                 /\ UNCHANGED << drugs, first_aid_boxes >>

\* POST /first-aid/boxes/{box_id}/add-item
\* The stock lookup and the stock update raise where they run: the lookup
\* for a code that is given, the update for a code of a drug.
add_item(user, box_id) ==
    IF ~Truthy(get_user_college(user))
        THEN Answer([Response("add_item") EXCEPT !.is_admin = user.is_admin],
                    303, "no_college")
    ELSE IF box_id \notin 1..Len(first_aid_boxes)
        THEN Answer(Response("add_item"), 303, "box_not_found")
    ELSE IF BoxAccess(user, box_id) # 0
        THEN Answer(Response("add_item"), 303, "forbidden")
    ELSE \E drug_code \in DrugCodes, quantity \in Quantities :
         \E stock_raises \in
                IF StockCheckRejects(drug_code, quantity, FALSE)
                    THEN BOOLEAN ELSE {FALSE} :
         \E ledger_fails \in IF DrugRows(drug_code) = {} THEN {FALSE} ELSE BOOLEAN :
            add_item_body(user, box_id, drug_code, quantity,
                          stock_raises, ledger_fails)

\* A delete that takes the item back when its stock update raises.
delete_item_found_rollback(user, box_id, item, ledger_fails) ==
    LET outcome == LedgerOutcome(item.drug_code, ledger_fails)
        did == IF outcome = "skipped" THEN 0 ELSE DrugId(item.drug_code)
    IN  /\ first_aid_box_items' =
               IF outcome = "failed" THEN first_aid_box_items
               ELSE first_aid_box_items \ {item}
        /\ CommitLedger(outcome,
               DeleteLedger(did, item.drug_code, item.quantity, box_id))
        /\ last' = [BoxResponse("delete_item", user, box_id) EXCEPT
               !.status = 303, !.reason = "item_deleted_stock_restored",
               !.item_id = item.id,
               !.drug_code = item.drug_code, !.quantity = item.quantity,
               !.ledger_fails = ledger_fails, !.ledger = outcome]
        /\ UNCHANGED << drugs, first_aid_boxes, next_item_id >>

\* The statements of delete_item once the item is found.
delete_item_found(user, box_id, item, ledger_fails) ==
    LET outcome == LedgerOutcome(item.drug_code, ledger_fails)
        did == IF outcome = "skipped" THEN 0 ELSE DrugId(item.drug_code)
        after_add == /\ last.op = "add_item"
                     /\ last.reason = "item_added_stock_deducted"
                     /\ last.item_id = item.id
    IN  /\ first_aid_box_items' = first_aid_box_items \ {item}
        /\ CommitLedger(outcome,
               DeleteLedger(did, item.drug_code, item.quantity, box_id))
        /\ last' = [BoxResponse("delete_item", user, box_id) EXCEPT
               !.status = 303, !.reason = "item_deleted_stock_restored",
               !.item_id = item.id,
               !.drug_code = item.drug_code, !.quantity = item.quantity,
               !.ledger_fails = ledger_fails, !.ledger = outcome,
               !.after_add = after_add,
               !.add_before = IF after_add THEN last.before ELSE Snapshot,
               !.add_ledger = IF after_add THEN last.ledger ELSE "none"]
        /\ UNCHANGED << drugs, first_aid_boxes, next_item_id >>

\* A str() that tells nothing of the exception it is given.
HTTPExceptionStrBlank(status_code, detail) == NoDetail

\* str(ex) of an HTTPException: its status code and its detail.
HTTPExceptionStr(status_code, detail) ==
    [status_code |-> status_code, detail |-> detail]

\* except Exception as ex: db.rollback();
\* raise HTTPException(status_code=400, detail=str(ex))
delete_item_raises(box_id, item_id, status_code, detail) ==
    Answer([Response("delete_item") EXCEPT
               !.box_id = box_id, !.item_id = item_id,
               !.detail = HTTPExceptionStr(status_code, detail)],
           400, detail)

\* A delete that looks the item up by its id alone.
delete_item_of_any_box(user, box_id, item_id) ==
    LET found == { it \in first_aid_box_items : it.id = item_id }
    IN  IF box_id \notin 1..Len(first_aid_boxes)
            THEN delete_item_raises(box_id, item_id, 404, "box_not_found")
        ELSE IF BoxAccess(user, box_id) # 0
            THEN delete_item_raises(box_id, item_id,
                                    BoxAccess(user, box_id), "forbidden")
        ELSE IF found = {}
            THEN delete_item_raises(box_id, item_id, 404, "item_not_found")
        ELSE \E item \in found :
             \E ledger_fails \in
                    IF DrugRows(item.drug_code) = {} THEN {FALSE} ELSE BOOLEAN :
                delete_item_found(user, box_id, item, ledger_fails)

\* POST /first-aid/boxes/{box_id}/items/{item_id}/delete
delete_item(user, box_id, item_id) ==
    LET found == { it \in first_aid_box_items :
                     it.id = item_id /\ it.box_id = box_id }
    IN  IF box_id \notin 1..Len(first_aid_boxes)
            THEN delete_item_raises(box_id, item_id, 404, "box_not_found")
        ELSE IF BoxAccess(user, box_id) # 0
            THEN delete_item_raises(box_id, item_id,
                                    BoxAccess(user, box_id), "forbidden")
        ELSE IF found = {}
            THEN delete_item_raises(box_id, item_id, 404, "item_not_found")
        ELSE \E item \in found :
             \E ledger_fails \in
                    IF DrugRows(item.drug_code) = {} THEN {FALSE} ELSE BOOLEAN :
                delete_item_found(user, box_id, item, ledger_fails)

\* Box ids a request names: those of the table and one of no box.
BoxIds == 1..(Len(first_aid_boxes) + 1)

\* Item ids a request names: those ever given and one never given.
ItemIds == 1..next_item_id

\* The ledger: items are added to the boxes of Init and removed from them.
Next ==
    /\ \/ \E user \in Actors, box_id \in BoxIds : add_item(user, box_id)
       \/ \E user \in Actors, box_id \in BoxIds, item_id \in ItemIds :
              delete_item(user, box_id, item_id)
    /\ UNCHANGED << probe, workers, accounts >>

Spec == Init /\ [][Next]_vars

\* The boxes: created and viewed, from the legacy box on.
BoxInit ==
    /\ drugs = Catalog
    /\ first_aid_boxes = << LegacyBox >>
    /\ first_aid_box_items = {}
    /\ next_item_id = 1
    /\ warehouse_stock = <<>>
    /\ pharmacy_stock = <<>>
    /\ drug_transactions = <<>>
    /\ accounts = NoAccounts
    /\ last = Response("init")
    /\ probe = NoProbe
    /\ workers = NoWorkers

BoxNext ==
    /\ \/ \E user \in Actors : boxes_create(user)
       \/ \E user \in Actors : boxes_list(user)
       \/ \E user \in Actors, box_id \in BoxIds : box_detail(user, box_id)
    /\ UNCHANGED << probe, workers, accounts >>

BoxSpec == BoxInit /\ [][BoxNext]_vars

\* The handlers that write, and the public view, on the boxes of Init.
AllNext ==
    /\ \/ \E user \in Actors : boxes_create(user)
       \/ \E box_id \in BoxIds : box_public_detail(box_id)
       \/ \E user \in Actors, box_id \in BoxIds : box_detail(user, box_id)
       \/ \E user \in Actors, box_id \in BoxIds : add_item(user, box_id)
       \/ \E user \in Actors, box_id \in BoxIds, item_id \in ItemIds :
              delete_item(user, box_id, item_id)
    /\ UNCHANGED << probe, workers, accounts >>

AllSpec == Init /\ [][AllNext]_vars

\* The same handlers from the legacy box on: boxes are created, then viewed
\* and filled.
BoxLifeSpec == BoxInit /\ [][AllNext]_vars

\* ------------------------------------------------- the college of a drug
\* SELECT college_id FROM drugs WHERE id = :id  (scalar: None for no row)
DrugCollege(medicine_id) ==
    IF \E d \in drugs : d.id = medicine_id
        THEN (CHOOSE d \in drugs : d.id = medicine_id).college_id
        ELSE None

\* UPDATE drugs SET college_id = :college_id WHERE id = :id
SetDrugCollege(medicine_id, college_id) ==
    { IF d.id = medicine_id THEN [d EXCEPT !.college_id = college_id] ELSE d :
        d \in drugs }

\* What both functions do: the SELECT, and the UPDATE and the commit for a
\* drug of no college.  A statement that raises ends the call with False and
\* nothing committed (db_raises; the UPDATE raises only when it runs).
AssignCollege(op, medicine_id, college_id, db_raises) ==
    LET call == [Response(op) EXCEPT
                    !.medicine_id = medicine_id, !.college_id = college_id,
                    !.db_raises = db_raises]
    IN  IF db_raises \/ Truthy(DrugCollege(medicine_id))
            THEN Answer(call, 0, "")
        ELSE /\ drugs' = SetDrugCollege(medicine_id, college_id)
             /\ last' = [call EXCEPT !.returned = TRUE]
             /\ UNCHANGED << first_aid_boxes, first_aid_box_items, next_item_id,
                             warehouse_stock, pharmacy_stock, drug_transactions >>

\* utils_medicine_college.ensure_medicine_has_college
ensure_medicine_has_college(medicine_id, college_id, db_raises) ==
    AssignCollege("ensure_medicine_has_college", medicine_id, college_id, db_raises)

\* utils_medicine_college.auto_assign_college_to_medicine
auto_assign_college_to_medicine(medicine_id, college_id, db_raises) ==
    AssignCollege("auto_assign_college_to_medicine", medicine_id, college_id,
                  db_raises)

\* utils_medicine_college.verify_medicine_access: what it returns.  A
\* statement that raises is caught and the function returns False.
verify_medicine_access(medicine_id, college_id, db_raises) ==
    IF db_raises THEN FALSE
    ELSE LET medicine_college == DrugCollege(medicine_id)
         IN  medicine_college = None \/ medicine_college = college_id

\* utils_medicine_college.prevent_medicine_cross_access: HTTPException(403)
\* when verify_medicine_access returns False.
prevent_medicine_cross_access(medicine_id, college_id, db_raises) ==
    LET accessible == verify_medicine_access(medicine_id, college_id, db_raises)
        call == [Response("prevent_medicine_cross_access") EXCEPT
                    !.medicine_id = medicine_id, !.college_id = college_id,
                    !.db_raises = db_raises, !.returned = accessible]
    IN  IF ~accessible THEN Answer(call, 403, "forbidden")
        ELSE Answer(call, 0, "")

\* The ids a call names: those of the catalog's drugs and one of no drug.
MedicineIds == { d.id : d \in Catalog } \cup { Cardinality(Catalog) + 1 }

\* The catalog's drugs, each of any college or of none yet.
MedicineInit ==
    /\ drugs \in { { [d EXCEPT !.college_id = c] : d \in Catalog } : c \in Colleges }
    /\ first_aid_boxes = << LegacyBox >>
    /\ first_aid_box_items = {}
    /\ next_item_id = 1
    /\ warehouse_stock = <<>>
    /\ pharmacy_stock = <<>>
    /\ drug_transactions = <<>>
    /\ accounts = NoAccounts
    /\ last = Response("init")
    /\ probe = NoProbe
    /\ workers = NoWorkers

MedicineNext ==
    /\ \E medicine_id \in MedicineIds, college_id \in Colleges, db_raises \in BOOLEAN :
          \/ ensure_medicine_has_college(medicine_id, college_id, db_raises)
          \/ auto_assign_college_to_medicine(medicine_id, college_id, db_raises)
          \/ prevent_medicine_cross_access(medicine_id, college_id, db_raises)
    /\ UNCHANGED << probe, workers, accounts >>

MedicineSpec == MedicineInit /\ [][MedicineNext]_vars

\* ------------------------------------------------- users and login_logs
\* A table whose foreign key names no action.
CreateLoginLogsNoAction == "NO ACTION"

\* Step 4 of fix_login_logs_cascade: CREATE TABLE login_logs (...
\* FOREIGN KEY (user_id) REFERENCES users(id) ON DELETE CASCADE): the ON
\* DELETE action of the table it creates.
CreateLoginLogs == "CASCADE"

\* The ids of the users of a run.
AccountIds == {1, 2}

\* fix_login_logs_cascade: the rows are copied to a backup, the table is
\* dropped and created anew, the rows are copied back under their ids.  The
\* test for a table that is already right (line 22) compares the text of the
\* constraint row with 'DELETE CASCADE' and its on_update field with 0 and
\* so never holds; recreating such a table leaves it as it was.
fix_login_logs_cascade ==
    /\ accounts' = [accounts EXCEPT !.on_delete = CreateLoginLogs]
    /\ last' = [Response("fix_login_logs_cascade") EXCEPT !.returned = TRUE]
    /\ UNCHANGED << tables, probe, workers >>

\* db.add(LoginLog(user_id=user_id, ...)); db.commit()
add_login_log(user_id) ==
    /\ user_id \in accounts.users
    /\ accounts.next_log_id <= MaxLogs
    /\ accounts' = [accounts EXCEPT
           !.login_logs = @ \cup { [id |-> accounts.next_log_id,
                                    user_id |-> user_id] },
           !.next_log_id = @ + 1]
    /\ last' = [Response("add_login_log") EXCEPT !.user_id = user_id]
    /\ UNCHANGED << tables, probe, workers >>

\* DELETE FROM users WHERE id = :id on a connection with foreign_keys=ON.
\* ON DELETE CASCADE deletes the login_logs of the user with it; under
\* another action the statement raises when a row references the user (SET
\* NULL on a NOT NULL column, NO ACTION, RESTRICT).
DeleteUserRow(user_id) ==
    LET logs == { l \in accounts.login_logs : l.user_id = user_id }
    IN  IF accounts.on_delete = "CASCADE"
            THEN [ raises |-> FALSE,
                   accounts |-> [accounts EXCEPT !.users = @ \ {user_id},
                                                 !.login_logs = @ \ logs] ]
        ELSE IF logs = {}
            THEN [ raises |-> FALSE,
                   accounts |-> [accounts EXCEPT !.users = @ \ {user_id}] ]
        ELSE [ raises |-> TRUE, accounts |-> accounts ]

\* The deletion of test_user_deletion: user_to_delete = db.query(User)...
\* first(); db.delete(user_to_delete); db.commit().  An exception (no such
\* user, or the statement raises) is caught and False is returned.
delete_user(user_id) ==
    LET response == [Response("delete_user") EXCEPT !.user_id = user_id]
        deleted == DeleteUserRow(user_id)
    IN  IF user_id \notin accounts.users \/ deleted.raises
            THEN /\ last' = response
                 /\ UNCHANGED << tables, accounts, probe, workers >>
        ELSE /\ accounts' = deleted.accounts
             /\ last' = [response EXCEPT !.returned = TRUE]
             /\ UNCHANGED << tables, probe, workers >>

\* Two users, a login_logs table of before the fix or of after it.
LoginInit ==
    /\ drugs = Catalog
    /\ first_aid_boxes = << LegacyBox >>
    /\ first_aid_box_items = {}
    /\ next_item_id = 1
    /\ warehouse_stock = <<>>
    /\ pharmacy_stock = <<>>
    /\ drug_transactions = <<>>
    /\ accounts \in { [NoAccounts EXCEPT !.users = AccountIds, !.on_delete = a] :
                        a \in {"SET NULL", CreateLoginLogs} }
    /\ last = Response("init")
    /\ probe = NoProbe
    /\ workers = NoWorkers

LoginNext ==
    \/ fix_login_logs_cascade
    \/ \E user_id \in AccountIds : add_login_log(user_id)
    \/ \E user_id \in AccountIds : delete_user(user_id)

LoginSpec == LoginInit /\ [][LoginNext]_vars

\* ------------------------------------------------------- the guard functions
\* One call of the functions of utils_college on any user and college.
GuardInit ==
    /\ drugs = Catalog
    /\ first_aid_boxes = << LegacyBox >>
    /\ first_aid_box_items = {}
    /\ next_item_id = 1
    /\ warehouse_stock = <<>>
    /\ pharmacy_stock = <<>>
    /\ drug_transactions = <<>>
    /\ accounts = NoAccounts
    /\ last = Response("init")
    /\ probe \in { [NoProbe EXCEPT !.given = u, !.user = u, !.college = c] :
                     u \in Users, c \in Colleges }
    /\ workers = NoWorkers

GuardCall ==
    /\ ~probe.called
    /\ probe' = [probe EXCEPT
           !.called = TRUE,
           !.user = UserAfterResolve(probe.user),
           !.resolved = get_user_college(probe.user),
           !.verify = verify_college_access(probe.user, probe.college),
           !.validate = validate_college_assignment(probe.user, probe.college).is_valid,
           !.prevent = prevent_cross_college_access(probe.user, probe.college)]
    /\ UNCHANGED << tables, last, workers, accounts >>

\* get_user_college once more, on the user object of the first call.
GuardRecall ==
    /\ probe.called
    /\ ~probe.again
    /\ probe' = [probe EXCEPT
           !.again = TRUE,
           !.user = UserAfterResolve(probe.user),
           !.resolved_again = get_user_college(probe.user)]
    /\ UNCHANGED << tables, last, workers, accounts >>

GuardNext == GuardCall \/ GuardRecall

GuardSpec == GuardInit /\ [][GuardNext]_vars

\* ---------------------------------------------------- requests in flight
\* add_item statement by statement, for requests served at the same time.
\* Each request runs on its own session: what it writes is seen by the others
\* once it commits, its SELECTs read what is committed, and an UPDATE of a row
\* waits while another session holds an uncommitted UPDATE of that row.
\* The requests are those of one doctor of college A, on a box of that
\* college, for the code of the catalog's drug.
RaceUser ==
    CHOOSE u \in Actors :
        /\ get_user_college(u) = <<"A">>
        /\ prevent_cross_college_access(u, <<"A">>) = 0

RaceCode == "D1"

\* The rows of a stock table that WHERE drug_id = :did matches.
Matching(stock, did) == { i \in 1..Len(stock) : stock[i].drug_id = did }

\* No session waits for a row.
RowNeverLocked(w, field, indices) == FALSE

\* Another session holds an uncommitted UPDATE of one of the rows.
RowLocked(w, field, indices) ==
    \E o \in Workers \ {w} :
        \E u \in workers[o][field].updated : u.index \in indices

\* What the UPDATE or the INSERT of one stock table writes in the session:
\* the UPDATE when the SELECT before it had found a row, else the INSERT.
PendingWrites(stock, existing, did, qty, college) ==
    IF existing
        THEN [ updated |->
                 { [index |-> i, row |-> DebitRows(stock, did, qty, college)[i]] :
                     i \in Matching(stock, did) },
               inserted |-> <<>> ]
        ELSE [ updated |-> {},
               inserted |-> InsertRow(<<>>, did, -qty, college) ]

\* A stock table once a session's writes are committed.
ApplyWrites(stock, writes) ==
    [ i \in 1..Len(stock) |->
        IF \E u \in writes.updated : u.index = i
            THEN (CHOOSE u \in writes.updated : u.index = i).row
            ELSE stock[i] ] \o writes.inserted

\* The request ends: its session is closed, what it had not committed is
\* dropped.
Finished(w, outcome) ==
    [workers[w] EXCEPT !.pc = "done", !.outcome = outcome,
                       !.warehouse_writes = NoWrites,
                       !.pharmacy_writes = NoWrites,
                       !.transaction_writes = <<>>]

\* add_item up to the commit of the item (lines 247-304).
race_begin(w) ==
    /\ workers[w].pc = "idle"
    /\ Truthy(get_user_college(RaceUser))
    /\ \E box_id \in 1..Len(first_aid_boxes), quantity \in Quantities :
       \E stock_raises \in
              IF StockCheckRejects(RaceCode, quantity, FALSE)
                  THEN BOOLEAN ELSE {FALSE} :
         LET request == [workers[w] EXCEPT
                 !.overlaps = \E o \in Workers \ {w} :
                                  workers[o].pc \notin {"idle", "done"},
                 !.user_college = get_user_college(RaceUser),
                 !.box_id = box_id, !.quantity = quantity]
             new_item == NewItem(next_item_id, box_id,
                                 get_user_college(RaceUser), RaceCode, quantity)
         IN  /\ Truthy(first_aid_boxes[box_id].college_id)
             /\ BoxAccess(RaceUser, box_id) = 0
             /\ IF StockCheckRejects(RaceCode, quantity, stock_raises)
                    THEN /\ workers' = [workers EXCEPT ![w] =
                                [request EXCEPT !.pc = "done",
                                                !.outcome = "refused"]]
                         /\ UNCHANGED << first_aid_box_items, next_item_id >>
                    ELSE /\ first_aid_box_items' = ItemsAfterAdd(new_item, "none")
                         /\ next_item_id' = next_item_id + 1
                         /\ workers' = [workers EXCEPT ![w] =
                                [request EXCEPT !.pc = "lookup",
                                                !.item_id = next_item_id]]
    /\ UNCHANGED << drugs, first_aid_boxes, warehouse_stock, pharmacy_stock,
                    drug_transactions, last, probe, accounts >>

\* 1. SELECT id FROM drugs WHERE drug_code = :code
race_lookup(w) ==
    /\ workers[w].pc = "lookup"
    /\ workers' = [workers EXCEPT ![w] =
           IF DrugRows(RaceCode) = {} THEN Finished(w, "skipped")
           ELSE [workers[w] EXCEPT !.pc = "select_warehouse",
                                   !.drug_id = DrugId(RaceCode)]]
    /\ UNCHANGED << tables, last, probe, accounts >>

\* 2. SELECT id FROM warehouse_stock WHERE drug_id = :did
race_select_warehouse(w) ==
    /\ workers[w].pc = "select_warehouse"
    /\ workers' = [workers EXCEPT ![w] =
           [workers[w] EXCEPT
               !.pc = "write_warehouse",
               !.existing_warehouse = HasRow(warehouse_stock, workers[w].drug_id)]]
    /\ UNCHANGED << tables, last, probe, accounts >>

\* 2. UPDATE warehouse_stock, or INSERT INTO warehouse_stock
race_write_warehouse(w) ==
    /\ workers[w].pc = "write_warehouse"
    /\ workers[w].existing_warehouse =>
           ~RowLocked(w, "warehouse_writes",
                      Matching(warehouse_stock, workers[w].drug_id))
    /\ workers' = [workers EXCEPT ![w] =
           [workers[w] EXCEPT
               !.pc = "select_pharmacy",
               !.warehouse_writes =
                   PendingWrites(warehouse_stock, workers[w].existing_warehouse,
                                 workers[w].drug_id, workers[w].quantity,
                                 workers[w].user_college)]]
    /\ UNCHANGED << tables, last, probe, accounts >>

\* 3. SELECT id FROM pharmacy_stock WHERE drug_id = :did
race_select_pharmacy(w) ==
    /\ workers[w].pc = "select_pharmacy"
    /\ workers' = [workers EXCEPT ![w] =
           [workers[w] EXCEPT
               !.pc = "write_pharmacy",
               !.existing_pharmacy = HasRow(pharmacy_stock, workers[w].drug_id)]]
    /\ UNCHANGED << tables, last, probe, accounts >>

\* 3. UPDATE pharmacy_stock, or INSERT INTO pharmacy_stock
race_write_pharmacy(w) ==
    /\ workers[w].pc = "write_pharmacy"
    /\ workers[w].existing_pharmacy =>
           ~RowLocked(w, "pharmacy_writes",
                      Matching(pharmacy_stock, workers[w].drug_id))
    /\ workers' = [workers EXCEPT ![w] =
           [workers[w] EXCEPT
               !.pc = "insert_transaction",
               !.pharmacy_writes =
                   PendingWrites(pharmacy_stock, workers[w].existing_pharmacy,
                                 workers[w].drug_id, workers[w].quantity,
                                 workers[w].user_college)]]
    /\ UNCHANGED << tables, last, probe, accounts >>

\* 4. INSERT INTO drug_transactions
race_insert_transaction(w) ==
    /\ workers[w].pc = "insert_transaction"
    /\ workers' = [workers EXCEPT ![w] =
           [workers[w] EXCEPT
               !.pc = "commit",
               !.transaction_writes =
                   << DebitTransaction(workers[w].drug_id, RaceCode,
                                       workers[w].quantity, workers[w].box_id) >>]]
    /\ UNCHANGED << tables, last, probe, accounts >>

\* db.commit() (line 374)
race_commit(w) ==
    /\ workers[w].pc = "commit"
    /\ warehouse_stock' = ApplyWrites(warehouse_stock, workers[w].warehouse_writes)
    /\ pharmacy_stock' = ApplyWrites(pharmacy_stock, workers[w].pharmacy_writes)
    /\ drug_transactions' = drug_transactions \o workers[w].transaction_writes
    /\ workers' = [workers EXCEPT ![w] = Finished(w, "applied")]
    /\ UNCHANGED << drugs, first_aid_boxes, first_aid_box_items, next_item_id,
                    last, probe, accounts >>

\* A statement of the stock update, or its commit, raises: except Exception
\* (lines 376-378) prints and the request answers with success.
race_raise(w) ==
    /\ workers[w].pc \in {"lookup", "select_warehouse", "write_warehouse",
                          "select_pharmacy", "write_pharmacy",
                          "insert_transaction", "commit"}
    /\ workers' = [workers EXCEPT ![w] = Finished(w, "failed")]
    /\ UNCHANGED << tables, last, probe, accounts >>

RaceNext ==
    \E w \in Workers :
        \/ race_begin(w)
        \/ race_lookup(w)
        \/ race_select_warehouse(w)
        \/ race_write_warehouse(w)
        \/ race_select_pharmacy(w)
        \/ race_write_pharmacy(w)
        \/ race_insert_transaction(w)
        \/ race_commit(w)
        \/ race_raise(w)

RaceSpec == Init /\ [][RaceNext]_vars

\* ---------------------------------------------------- deletes in flight
\* delete_item statement by statement, for requests served at the same time,
\* on the sessions described above.  The items are those that adds of the
\* same doctor stored before.

\* What the UPDATE of one stock table writes in the session of a delete.
CreditWrites(stock, did, qty) ==
    [ updated |->
        { [index |-> i, row |-> CreditRows(stock, did, qty)[i]] :
            i \in Matching(stock, did) },
      inserted |-> <<>> ]

\* db.delete(item); db.commit(): whether it raises.  The DELETE of a row
\* that another request has deleted since the SELECT matches no row; the
\* handler does not look at the row count, and the session warns or raises
\* StaleDataError as the mapper is configured.  The statement may also
\* raise for the database (locked).
StaleDeleteRaises(matched) == BOOLEAN

\* delete_item up to the SELECT of the item (lines 400-419).
race_delete_begin(w) ==
    /\ workers[w].pc = "idle"
    /\ \E box_id \in BoxIds, item_id \in ItemIds :
         LET found == { it \in first_aid_box_items :
                          it.id = item_id /\ it.box_id = box_id }
             request == [workers[w] EXCEPT
                 !.overlaps = \E o \in Workers \ {w} :
                                  workers[o].pc \notin {"idle", "done"},
                 !.user_college = get_user_college(RaceUser),
                 !.box_id = box_id, !.item_id = item_id]
         IN  IF \/ box_id \notin 1..Len(first_aid_boxes)
                \/ BoxAccess(RaceUser, box_id) # 0
                \/ found = {}
                 THEN workers' = [workers EXCEPT ![w] =
                          [request EXCEPT !.pc = "done", !.outcome = "refused"]]
             ELSE \E item \in found :
                  workers' = [workers EXCEPT ![w] =
                      [request EXCEPT !.pc = "remove",
                                      !.drug_code = item.drug_code,
                                      !.quantity = item.quantity]]
    /\ UNCHANGED << tables, last, probe, accounts >>

\* db.delete(item); db.commit() (lines 422-423); an exception reaches the
\* outer except and the request answers 400.
race_delete_remove(w) ==
    /\ workers[w].pc = "remove"
    /\ LET rows == { it \in first_aid_box_items : it.id = workers[w].item_id }
       IN  \E raises \in StaleDeleteRaises(rows # {}) :
             IF raises
                 THEN /\ workers' = [workers EXCEPT ![w] = Finished(w, "refused")]
                      /\ UNCHANGED first_aid_box_items
             ELSE /\ first_aid_box_items' = first_aid_box_items \ rows
                  /\ workers' = [workers EXCEPT ![w].pc = "lookup"]
    /\ UNCHANGED << drugs, first_aid_boxes, next_item_id, warehouse_stock,
                    pharmacy_stock, drug_transactions, last, probe, accounts >>

\* 1. SELECT id FROM drugs WHERE drug_code = :code (lines 425-432)
race_delete_lookup(w) ==
    /\ workers[w].pc = "lookup"
    /\ workers' = [workers EXCEPT ![w] =
           IF workers[w].drug_code = "" \/ DrugRows(workers[w].drug_code) = {}
               THEN Finished(w, "skipped")
           ELSE [workers[w] EXCEPT !.pc = "credit_warehouse",
                                   !.drug_id = DrugId(workers[w].drug_code)]]
    /\ UNCHANGED << tables, last, probe, accounts >>

\* 2. UPDATE warehouse_stock SET balance_qty = balance_qty + :qty
race_delete_credit_warehouse(w) ==
    /\ workers[w].pc = "credit_warehouse"
    /\ ~RowLocked(w, "warehouse_writes",
                  Matching(warehouse_stock, workers[w].drug_id))
    /\ workers' = [workers EXCEPT ![w] =
           [workers[w] EXCEPT
               !.pc = "credit_pharmacy",
               !.warehouse_writes =
                   CreditWrites(warehouse_stock, workers[w].drug_id,
                                workers[w].quantity)]]
    /\ UNCHANGED << tables, last, probe, accounts >>

\* 3. UPDATE pharmacy_stock SET balance_qty = balance_qty + :qty
race_delete_credit_pharmacy(w) ==
    /\ workers[w].pc = "credit_pharmacy"
    /\ ~RowLocked(w, "pharmacy_writes",
                  Matching(pharmacy_stock, workers[w].drug_id))
    /\ workers' = [workers EXCEPT ![w] =
           [workers[w] EXCEPT
               !.pc = "return_transaction",
               !.pharmacy_writes =
                   CreditWrites(pharmacy_stock, workers[w].drug_id,
                                workers[w].quantity)]]
    /\ UNCHANGED << tables, last, probe, accounts >>

\* 4. INSERT INTO drug_transactions (box_return)
race_delete_insert_transaction(w) ==
    /\ workers[w].pc = "return_transaction"
    /\ workers' = [workers EXCEPT ![w] =
           [workers[w] EXCEPT
               !.pc = "commit_return",
               !.transaction_writes =
                   << ReturnTransaction(workers[w].drug_id, workers[w].drug_code,
                                        workers[w].quantity, workers[w].box_id) >>]]
    /\ UNCHANGED << tables, last, probe, accounts >>

\* db.commit() (line 469)
race_delete_commit(w) ==
    /\ workers[w].pc = "commit_return"
    /\ warehouse_stock' = ApplyWrites(warehouse_stock, workers[w].warehouse_writes)
    /\ pharmacy_stock' = ApplyWrites(pharmacy_stock, workers[w].pharmacy_writes)
    /\ drug_transactions' = drug_transactions \o workers[w].transaction_writes
    /\ workers' = [workers EXCEPT ![w] = Finished(w, "applied")]
    /\ UNCHANGED << drugs, first_aid_boxes, first_aid_box_items, next_item_id,
                    last, probe, accounts >>

\* A statement of the stock update, or its commit, raises: except Exception
\* (lines 470-471) prints and the request answers with success.
race_delete_raise(w) ==
    /\ workers[w].pc \in {"lookup", "credit_warehouse", "credit_pharmacy",
                          "return_transaction", "commit_return"}
    /\ workers' = [workers EXCEPT ![w] = Finished(w, "failed")]
    /\ UNCHANGED << tables, last, probe, accounts >>

DeleteRaceNext ==
    \/ /\ \E box_id \in 1..Len(first_aid_boxes) : add_item(RaceUser, box_id)
       /\ UNCHANGED << probe, workers, accounts >>
    \/ \E w \in Workers :
          \/ race_delete_begin(w)
          \/ race_delete_remove(w)
          \/ race_delete_lookup(w)
          \/ race_delete_credit_warehouse(w)
          \/ race_delete_credit_pharmacy(w)
          \/ race_delete_insert_transaction(w)
          \/ race_delete_commit(w)
          \/ race_delete_raise(w)

DeleteRaceSpec == Init /\ [][DeleteRaceNext]_vars

\* -------------------------------------------------------------- properties
\* The key the guard compares colleges by: trimmed, in lower case.
CollegeKey(college) == Lower(Strip(college))

\* The last request was an add, or a delete, that answered with success.
Added == last.op = "add_item" /\ last.reason = "item_added_stock_deducted"

Deleted == last.op = "delete_item" /\ last.reason = "item_deleted_stock_restored"

\* The last request was an add that passed the tenant and the access checks.
PassedGuard ==
    /\ last.op = "add_item"
    /\ last.reason \in {"insufficient_stock", "item_added_stock_deducted"}

\* The drug code of the last request is one of the catalog.
Resolves == DrugRows(last.drug_code) # {}

\* The item the last add stored.
AddedItem ==
    { it \in first_aid_box_items :
        /\ it.id = last.item_id /\ it.box_id = last.box_id
        /\ it.drug_code = last.drug_code /\ it.quantity = last.quantity }

\* The last request left every table as it found it.
NothingWritten == Snapshot = last.before

\* The last request left the three ledger tables as it found them.
LedgerUntouched ==
    /\ warehouse_stock = last.before.warehouse_stock
    /\ pharmacy_stock = last.before.pharmacy_stock
    /\ drug_transactions = last.before.drug_transactions

\* Both balances of the drug moved by delta since the snapshot.
BalancesMoved(since, delta) ==
    LET did == DrugId(last.drug_code)
    IN  /\ Balance(warehouse_stock, did) = Balance(since.warehouse_stock, did) + delta
        /\ Balance(pharmacy_stock, did) = Balance(since.pharmacy_stock, did) + delta

\* Exactly n records were appended since the snapshot.
RecordsAppended(since, n) ==
    /\ Len(drug_transactions) = Len(since.drug_transactions) + n
    /\ SubSeq(drug_transactions, 1, Len(since.drug_transactions))
           = since.drug_transactions

\* Both balances are exactly the quantity lower, a row that was missing now
\* holds the negated quantity, and one warehouse_to_box record of the negated
\* quantity was appended.
DebitedByQuantity ==
    LET did == DrugId(last.drug_code)
        n == Len(drug_transactions)
    IN  /\ BalancesMoved(last.before, -last.quantity)
        /\ HasRow(warehouse_stock, did) /\ HasRow(pharmacy_stock, did)
        /\ RecordsAppended(last.before, 1)
        /\ drug_transactions[n].drug_id = did
        /\ drug_transactions[n].transaction_type = "warehouse_to_box"
        /\ drug_transactions[n].quantity_change = -last.quantity

\* Both balances are back at their value of before the add, and the add and
\* the delete appended one record each, of quantities that sum to zero.
RoundTripRestored ==
    LET n == Len(drug_transactions)
    IN  /\ BalancesMoved(last.add_before, 0)
        /\ RecordsAppended(last.add_before, 2)
        /\ drug_transactions[n - 1].transaction_type = "warehouse_to_box"
        /\ drug_transactions[n].transaction_type = "box_return"
        /\ drug_transactions[n - 1].quantity_change
               + drug_transactions[n].quantity_change = 0

\* C1: an actor whose resolved college is t1 never changes, by an add or a
\* delete, a balance of a drug whose owning college is another one.
C1_NoCrossTenantBalanceChange ==
    ((Added \/ Deleted) /\ Truthy(last.user_college)) =>
        \A d \in drugs :
            (Truthy(d.college_id)
                /\ CollegeKey(d.college_id) # CollegeKey(last.user_college)) =>
                /\ Balance(warehouse_stock, d.id)
                       = Balance(last.before.warehouse_stock, d.id)
                /\ Balance(pharmacy_stock, d.id)
                       = Balance(last.before.pharmacy_stock, d.id)

\* The detail view of a box of one college by a user, not an admin, whose
\* resolved college is another one.
CrossCollegeView ==
    /\ last.op = "box_detail"
    /\ ~last.is_admin
    /\ Truthy(last.user_college)
    /\ last.box_id \in 1..Len(last.before.first_aid_boxes)
    /\ Truthy(last.before.first_aid_boxes[last.box_id].college_id)
    /\ CollegeKey(last.before.first_aid_boxes[last.box_id].college_id)
           # CollegeKey(last.user_college)

\* C2: the detail view of a box of college t1 by a user, not an admin, whose
\* resolved college is t2 # t1 is denied (403) and leaves the box's
\* last_reviewed_at as it was.
C2_CrossTenantViewDenied ==
    CrossCollegeView =>
        /\ last.status = 403
        /\ first_aid_boxes = last.before.first_aid_boxes

C2_Witness == CrossCollegeView /\ last.status = 403

OverStock ==
    /\ PassedGuard /\ Resolves
    /\ last.quantity
           > Balance(last.before.pharmacy_stock, DrugId(last.drug_code))

C6_LedgerFailureKeepsItem ==
    (last.op = "add_item" /\ last.ledger_fails) =>
        /\ last.status = 303
        /\ last.reason = "item_added_stock_deducted"
        /\ AddedItem # {}
        /\ AddedItem \cap last.before.first_aid_box_items = {}
        /\ LedgerUntouched

C6_Witness ==
    /\ last.op = "add_item" /\ last.ledger_fails
    /\ last.quantity = 1

\* C7: of one movement (an add or a delete of a drug with a code of the
\* catalog and quantity q), the Warehouse change, the Pharmacy change and the
\* record are all present or all absent.
C7_MovementAllOrNone ==
    ((Added \/ Deleted) /\ Resolves) =>
        \/ /\ BalancesMoved(last.before,
                  IF Added THEN -last.quantity ELSE last.quantity)
           /\ RecordsAppended(last.before, 1)
        \/ LedgerUntouched

\* C8: an add, a delete or a detail view that is refused for the tenant or
\* for the access leaves every table as it found it.
C8_RefusedChangesNothing ==
    (last.op \in {"add_item", "delete_item", "box_detail"}
        /\ last.reason \in {"no_college", "forbidden"}) => NothingWritten

C8_Witness ==
    /\ last.op = "box_detail" /\ last.reason = "forbidden"
    /\ last.before.first_aid_boxes[last.box_id].last_reviewed_at = 0

\* C9: a user, not an admin, whose resolved college is None never completes
\* an add, a delete or the creation of a box, whatever the box, a box with
\* no college included.
C9_NoCollegeNoWrite ==
    (last.op \in {"add_item", "delete_item", "boxes_create"}
        /\ ~last.is_admin /\ ~Truthy(last.user_college)) =>
        /\ ~Added
        /\ ~Deleted
        /\ ~(last.op = "boxes_create" /\ last.status = 303)

\* C10: for an admin, whatever the college, the unset one included,
\* verify_college_access returns True and prevent_cross_college_access does
\* not raise.
C10_AdminAlwaysAllowed ==
    (probe.called /\ probe.user.is_admin) =>
        /\ probe.verify
        /\ probe.prevent = 0

\* C11: an admin meets the tenant precondition of add_item and of
\* boxes_create: neither refuses an admin for having no college assigned.
C11_AdminPassesTenantCheck ==
    (last.op \in {"add_item", "boxes_create"} /\ last.is_admin) =>
        last.reason # "no_college"

\* The roles of a user in the order doctor, college admin, head of
\* department, each with its flag and its college claim.
ClaimsInOrder(user) ==
    << [flag |-> user.is_doc, claim |-> user.doctor_college],
       [flag |-> user.is_college_admin, claim |-> user.college_admin_college],
       [flag |-> user.is_hod, claim |-> user.hod_college] >>

\* The roles whose flag is set and whose claim is not empty.
UsableClaims(user) ==
    { i \in 1..3 : ClaimsInOrder(user)[i].flag
                      /\ Truthy(ClaimsInOrder(user)[i].claim) }

\* The first claim of a user that is usable, None when there is none.
FirstClaim(user) ==
    IF UsableClaims(user) = {} THEN None
    ELSE ClaimsInOrder(user)[CHOOSE i \in UsableClaims(user) :
                                \A j \in UsableClaims(user) : i <= j].claim

\* C12: what get_user_college returns for an admin differs from what it
\* returns for any user, not an admin, who has no usable college claim.
C12_GlobalDistinctFromNone ==
    (probe.called /\ probe.user.is_admin) =>
        \A u \in Users :
            (~u.is_admin /\ UsableClaims(u) = {}) =>
                get_user_college(u) # probe.resolved

\* C13: get_user_college returns no college for an admin, whatever the other
\* roles; for any other user it returns the first claim that is not empty in
\* the order doctor, college admin, head of department among the roles whose
\* flag is set, and no college when there is none.
C13_ResolvePriority ==
    probe.called =>
        probe.resolved =
            IF probe.user.is_admin THEN None ELSE FirstClaim(probe.user)

C13_Witness ==
    /\ probe.called /\ ~probe.user.is_admin
    /\ probe.user.is_doc /\ ~Truthy(probe.user.doctor_college)
    /\ probe.user.is_college_admin /\ probe.user.college_admin_college = <<"B">>
    /\ probe.user.is_hod /\ probe.user.hod_college = <<"A">>
    /\ probe.resolved = <<"B">>

\* C14: for a user, not an admin, whose resolved college is t and a college
\* t' that is set, validate_college_assignment is valid and
\* prevent_cross_college_access does not raise exactly when t and t' are
\* equal once trimmed and in lower case.
C14_GuardAllowsIffSameCollege ==
    (probe.called /\ ~probe.user.is_admin
        /\ Truthy(probe.resolved) /\ Truthy(probe.college)) =>
        /\ probe.validate <=> (CollegeKey(probe.resolved) = CollegeKey(probe.college))
        /\ (probe.prevent = 0)
               <=> (CollegeKey(probe.resolved) = CollegeKey(probe.college))

\* One box_return record of the quantity, from the box to the warehouse, was
\* appended and both balances are exactly the quantity higher.
CreditedByQuantity ==
    LET did == DrugId(last.drug_code)
        n == Len(drug_transactions)
    IN  /\ BalancesMoved(last.before, last.quantity)
        /\ RecordsAppended(last.before, 1)
        /\ drug_transactions[n].drug_id = did
        /\ drug_transactions[n].drug_code = last.drug_code
        /\ drug_transactions[n].transaction_type = "box_return"
        /\ drug_transactions[n].quantity_change = last.quantity
        /\ drug_transactions[n].source = BoxLabel(last.box_id)
        /\ drug_transactions[n].destination = WarehouseLabel

\* C15: a delete of an item with a code of the catalog and quantity q, whose
\* stock update does not raise, leaves both balances exactly q higher and
\* appends exactly one box_return record of quantity change +q, from the box
\* to the warehouse.
C15_DeleteCreditsBoth ==
    (Deleted /\ Resolves /\ ~last.ledger_fails) => CreditedByQuantity

\* The last request was a delete that passed the access check and found
\* its item.
FoundItem ==
    /\ last.op = "delete_item"
    /\ last.reason \notin {"box_not_found", "forbidden", "item_not_found"}

\* C16: a delete that passes the access check and finds the item removes
\* the item and answers with its success redirect, also when its stock
\* update raises or is skipped; the ledger tables are then as before.
C16_DeleteAlwaysRemovesItem ==
    FoundItem =>
        /\ last.status = 303
        /\ last.reason = "item_deleted_stock_restored"
        /\ \E it \in last.before.first_aid_box_items :
               it.id = last.item_id /\ it.box_id = last.box_id
        /\ \A it \in first_aid_box_items : it.id # last.item_id
        /\ last.ledger \in {"failed", "skipped"} => LedgerUntouched

C16_Witness == FoundItem /\ last.ledger = "failed" /\ last.quantity = 1

\* C17: an add, past the tenant and the access checks, with no drug code or
\* with a code of no drug of the catalog stores the item and answers with
\* success, and leaves every Warehouse row, every Pharmacy row and the
\* transaction log as they were.
C17_UnresolvedCodeSkipsLedger ==
    (PassedGuard /\ ~Resolves) =>
        /\ Added
        /\ AddedItem # {}
        /\ AddedItem \cap last.before.first_aid_box_items = {}
        /\ LedgerUntouched

C17_Witness ==
    /\ PassedGuard /\ last.drug_code = "DX" /\ last.quantity = 1
    /\ last.before.warehouse_stock # <<>>

\* C20: over every sequence of adds and deletes the transaction log only
\* grows: each request leaves the records it found in place and unchanged,
\* and at most appends to them.
C20_TransactionsOnlyGrow ==
    /\ Len(drug_transactions) >= Len(last.before.drug_transactions)
    /\ SubSeq(drug_transactions, 1, Len(last.before.drug_transactions))
           = last.before.drug_transactions

C20_Witness ==
    /\ Deleted /\ last.ledger = "applied"
    /\ Len(last.before.drug_transactions) = 1
    /\ Len(drug_transactions) = 2

\* Every request in flight has ended, none refused by the stock check, and
\* the drug had its Warehouse row and its Pharmacy row before the first.
BothAddedOnExistingRows ==
    /\ \A w \in Workers : workers[w].pc = "done" /\ workers[w].outcome # "refused"
    /\ HasRow(last.before.warehouse_stock, DrugId(RaceCode))
    /\ HasRow(last.before.pharmacy_stock, DrugId(RaceCode))

\* Each balance of the drug is its first value less the quantity of every
\* request, and each request appended one warehouse_to_box record.
NoDecrementLost ==
    LET did == DrugId(RaceCode)
        total == workers[1].quantity + workers[2].quantity
    IN  /\ Balance(warehouse_stock, did)
               = Balance(last.before.warehouse_stock, did) - total
        /\ Balance(pharmacy_stock, did)
               = Balance(last.before.pharmacy_stock, did) - total
        /\ Len(drug_transactions) = Cardinality(Workers)
        /\ \A i \in 1..Len(drug_transactions) :
               drug_transactions[i].transaction_type = "warehouse_to_box"
        /\ \E i, j \in 1..Len(drug_transactions) :
               /\ i # j
               /\ drug_transactions[i].quantity_change = -workers[1].quantity
               /\ drug_transactions[j].quantity_change = -workers[2].quantity

C19_OneRowPerDrug ==
    \A d \in drugs :
        /\ Cardinality(Matching(warehouse_stock, d.id)) <= 1
        /\ Cardinality(Matching(pharmacy_stock, d.id)) <= 1

\* The last request was a delete that named an item the box it named did
\* not hold: an id of no item, or the id of an item of another box.
DeleteOfMissingItem ==
    /\ last.op = "delete_item"
    /\ ~\E it \in last.before.first_aid_box_items :
           it.id = last.item_id /\ it.box_id = last.box_id

\* C21: a delete that names an item id of no item, or of an item of another
\* box than the one it names, fails (400) and leaves every table as it found
\* it; once the box is found and the access check passed, the error is the
\* item-not-found one, whose text differs from that of box-not-found.
C21_MissingItemNotFound ==
    DeleteOfMissingItem =>
        /\ last.status = 400
        /\ NothingWritten
        /\ last.reason \notin {"box_not_found", "forbidden"} =>
               /\ last.reason = "item_not_found"
               /\ last.detail = HTTPExceptionStr(404, "item_not_found")
               /\ last.detail # HTTPExceptionStr(404, "box_not_found")

C21_Witness ==
    /\ DeleteOfMissingItem
    /\ last.reason = "item_not_found"
    /\ \E it \in first_aid_box_items :
           it.id = last.item_id /\ it.box_id # last.box_id

\* C22: the listing of the boxes shows a user who is not an admin only boxes
\* whose college equals the user's resolved college, a user of no resolved
\* college included, and shows an admin every box.
C22_ListingOnlyOwnCollege ==
    last.op = "boxes_list" =>
        IF last.is_admin
            THEN last.boxes = 1..Len(first_aid_boxes)
            ELSE \A b \in last.boxes :
                     first_aid_boxes[b].college_id = last.user_college

\* What the caller of the last request is told: the status and the msg of
\* the redirect.
ReportedResult == [status |-> last.status, reason |-> last.reason]

\* What the caller of an add is told when the stock was deducted.
DeductedResult == [status |-> 303, reason |-> "item_added_stock_deducted"]

\* C23: an add whose stock update raised reports another result than an add
\* whose stock was deducted, so that the caller can tell the two apart.
C23_LedgerFailureReported ==
    (last.op = "add_item" /\ last.ledger = "failed") =>
        ReportedResult # DeductedResult

\* C24: the public view of a box asks for no user and checks no college; it
\* answers not-found (404) for an id of no box, else it shows the items of
\* the box it was asked for and no other; it leaves every table as it found
\* it, the box's last_reviewed_at included.
C24_PublicViewReadOnly ==
    last.op = "box_public_detail" =>
        /\ NothingWritten
        /\ IF last.box_id \in 1..Len(first_aid_boxes)
               THEN /\ last.status = 200
                    /\ last.items =
                           { it \in first_aid_box_items : it.box_id = last.box_id }
               ELSE last.status = 404 /\ last.items = {}

C24_Witness ==
    /\ last.op = "box_public_detail"
    /\ last.status = 200
    /\ Truthy(first_aid_boxes[last.box_id].college_id)
    /\ last.items # {}
    /\ first_aid_boxes[last.box_id].last_reviewed_at = 0

\* The last request was a call of one of the two functions that give a drug
\* its college.
AssignCall ==
    last.op \in {"ensure_medicine_has_college", "auto_assign_college_to_medicine"}

\* The call gave the college it was given to a drug that had none.
Assigned ==
    \E d \in last.before.drugs :
        /\ d.id = last.medicine_id
        /\ ~Truthy(d.college_id)
        /\ ~last.db_raises
        /\ drugs = (last.before.drugs \ {d})
                       \cup { [d EXCEPT !.college_id = last.college_id] }

\* C25: neither function changes the college of a drug that has one; each
\* gives the college it is called with only to a drug of no college and
\* returns True exactly when it did; a call for a drug that has a college
\* returns False whatever the college it is called with.
C25_AssignOnce ==
    AssignCall =>
        /\ \A d \in last.before.drugs : Truthy(d.college_id) => d \in drugs
        /\ drugs # last.before.drugs => Assigned
        /\ last.returned <=> Assigned
        /\ \A d \in last.before.drugs :
               (d.id = last.medicine_id /\ Truthy(d.college_id)) => ~last.returned

\* C26: the item an add stores carries the college resolved for the user
\* who added it, and no request changes the college, the quantity or the
\* drug code of an item it found: an item is kept as it was or deleted.
C26_ItemKeepsTenant ==
    /\ Added =>
           /\ AddedItem # {}
           /\ \A it \in AddedItem : it.college_id = last.user_college
    /\ \A old \in last.before.first_aid_box_items :
       \A it \in first_aid_box_items :
           it.id = old.id => it = old

C26_Witness ==
    /\ last.op \in {"box_detail", "boxes_create", "box_public_detail"}
    /\ last.status \in {200, 303}
    /\ \E it \in first_aid_box_items :
           /\ it \in last.before.first_aid_box_items
           /\ it.college_id = <<"A">>
           /\ ~Truthy(first_aid_boxes[it.box_id].college_id)

\* C27: a box that boxes_create stores has the resolved college of its
\* creator, which is not empty; a creator of no resolved college is refused
\* (400) and no box is stored; and no request deletes a box or changes the
\* college of a box.
C27_BoxTenantFixed ==
    /\ last.op = "boxes_create" =>
           IF Truthy(last.user_college)
               THEN /\ last.status = 303
                    /\ Len(first_aid_boxes) = Len(last.before.first_aid_boxes) + 1
                    /\ last.box_id = Len(first_aid_boxes)
                    /\ first_aid_boxes[last.box_id].college_id = last.user_college
               ELSE last.status = 400 /\ NothingWritten
    /\ last.op # "boxes_create" =>
           Len(first_aid_boxes) = Len(last.before.first_aid_boxes)
    /\ \A b \in 1..Len(last.before.first_aid_boxes) :
           /\ b \in 1..Len(first_aid_boxes)
           /\ first_aid_boxes[b].college_id
                  = last.before.first_aid_boxes[b].college_id

C27_Witness ==
    /\ Deleted
    /\ last.box_id = Len(first_aid_boxes)
    /\ Len(first_aid_boxes) > Len(<< LegacyBox >>)
    /\ first_aid_boxes[last.box_id].college_id = <<" ", "a">>
    /\ first_aid_boxes[last.box_id].last_reviewed_at > 0

\* The last request was a detail view that found its box and passed the
\* access check.
Viewed == last.op = "box_detail" /\ last.status = 200

\* C28: a detail view that finds the box and passes the access check stamps
\* the last_reviewed_at of that box with the time of the view, and changes
\* nothing else: no other field of the box, no other box, no item, no stock
\* row, no transaction record.
C28_ViewStampsOnly ==
    Viewed =>
        /\ last.box_id \in 1..Len(last.before.first_aid_boxes)
        /\ first_aid_boxes[last.box_id].last_reviewed_at \in 1..MaxClock
        /\ first_aid_boxes[last.box_id].last_reviewed_at
               >= last.before.first_aid_boxes[last.box_id].last_reviewed_at
        /\ \E t \in 1..MaxClock :
               first_aid_boxes =
                   [last.before.first_aid_boxes EXCEPT
                       ![last.box_id].last_reviewed_at = t]
        /\ drugs = last.before.drugs
        /\ first_aid_box_items = last.before.first_aid_box_items
        /\ next_item_id = last.before.next_item_id
        /\ LedgerUntouched

C28_Witness ==
    /\ Viewed
    /\ last.before.first_aid_boxes[last.box_id].last_reviewed_at = 0
    /\ first_aid_box_items # {}
    /\ drug_transactions # <<>>
    /\ \E b \in 1..Len(first_aid_boxes) :
           b # last.box_id /\ first_aid_boxes[b].last_reviewed_at = 0

DeletionOfUser ==
    /\ last.op = "delete_user"
    /\ last.user_id \in last.before.accounts.users

RECURSIVE SumOfChanges(_, _)
\* The sum of quantity_change over the records of a drug.
SumOfChanges(log, did) ==
    IF log = <<>> THEN 0
    ELSE (IF Head(log).drug_id = did THEN Head(log).quantity_change ELSE 0)
         + SumOfChanges(Tail(log), did)

\* C31: in every state that adds and deletes reach, each balance of each
\* drug, Warehouse and Pharmacy, is its opening value plus the sum of
\* quantity_change over the transaction records of the drug, a missing row
\* counting as 0.
C31_LogReconstructsBalance ==
    \A d \in drugs :
        /\ Balance(warehouse_stock, d.id)
               = Balance(last.opening.warehouse_stock, d.id)
                     + SumOfChanges(drug_transactions, d.id)
        /\ Balance(pharmacy_stock, d.id)
               = Balance(last.opening.pharmacy_stock, d.id)
                     + SumOfChanges(drug_transactions, d.id)

\* The box_return records of the log.
BoxReturns ==
    { i \in 1..Len(drug_transactions) :
        drug_transactions[i].transaction_type = "box_return" }

\* C32: the stock of an item is given back at most once: the log never holds
\* more box_return records than items were ever stored, and no two deletes
\* give back the same item, also when they are served at the same time.
C32_ReversalAtMostOnce ==
    /\ Cardinality(BoxReturns) <= next_item_id - 1
    /\ \A v, w \in Workers :
           (/\ v # w
            /\ workers[v].item_id = workers[w].item_id
            /\ workers[v].outcome = "applied") =>
               workers[w].outcome # "applied"

RECURSIVE SumOfType(_, _, _)
\* The sum of quantity_change over the records of a drug of one type.
SumOfType(log, did, type) ==
    IF log = <<>> THEN 0
    ELSE (IF Head(log).drug_id = did /\ Head(log).transaction_type = type
              THEN Head(log).quantity_change ELSE 0)
         + SumOfType(Tail(log), did, type)

\* C33: for every drug, what the box_return records credit in total never
\* exceeds what the warehouse_to_box records debited in total: a delete gives
\* back only what the add of its item took.
C33_CreditWithinDebit ==
    \A d \in drugs :
        SumOfType(drug_transactions, d.id, "box_return")
            <= 0 - SumOfType(drug_transactions, d.id, "warehouse_to_box")

\* C34: for every user who is not an admin and every box, the listing (the
\* filter reads the user's admin flag and resolved college alone) shows
\* the box to the user exactly when the guard of the box's view lets the
\* user in: the filter and the guard apply one tenant policy, also to a box
\* of no college and to colleges that differ in case or surrounding blanks.
C34_ListingAgreesWithGuard ==
    (last.op = "boxes_list" /\ ~last.is_admin) =>
        \A user \in Actors :
            (~user.is_admin /\ get_user_college(user) = last.user_college) =>
                /\ last.boxes = filter_by_college(first_aid_boxes, user)
                /\ \A box_id \in 1..Len(first_aid_boxes) :
                       box_id \in last.boxes <=> BoxAccess(user, box_id) = 0

\* The items a query filtered by the user's college returns:
\* FirstAidBoxItem.college_id == get_user_college(user).
ItemsOfCollege(user) ==
    { it \in first_aid_box_items : it.college_id = get_user_college(user) }

\* The items of the boxes of the user's college.
ItemsOfBoxesOfCollege(user) ==
    { it \in first_aid_box_items :
        CollegeKey(first_aid_boxes[it.box_id].college_id)
            = CollegeKey(get_user_college(user)) }

\* C35: every item carries the college of its box, compared trimmed and
\* without case, and so the items filtered by the college of a user who has
\* one are exactly the items of the boxes of that college.
C35_ItemHasCollegeOfBox ==
    /\ \A it \in first_aid_box_items :
           CollegeKey(it.college_id)
               = CollegeKey(first_aid_boxes[it.box_id].college_id)
    /\ \A user \in Actors :
           Truthy(get_user_college(user)) =>
               ItemsOfCollege(user) = ItemsOfBoxesOfCollege(user)

\* C36: verify_college_access and validate_college_assignment decide alike:
\* for every user and every college, one allows exactly when the other does.
C36_GuardsDecideAlike ==
    probe.called => (probe.verify <=> probe.validate)

\* Every row of the stock table that had a college before the last request
\* still has that college, compared trimmed and without case.
CollegeKept(stock, before) ==
    \A i \in 1..Len(before) :
        Truthy(before[i].college) =>
            /\ i <= Len(stock)
            /\ stock[i].drug_id = before[i].drug_id
            /\ CollegeKey(stock[i].college) = CollegeKey(before[i].college)

\* C37: the college of a Warehouse or Pharmacy balance row, once set, never
\* changes: no add and no delete, by whatever user, leaves a row with another
\* college than it had.
C37_StockCollegeFixed ==
    /\ CollegeKept(warehouse_stock, last.before.warehouse_stock)
    /\ CollegeKept(pharmacy_stock, last.before.pharmacy_stock)

\* C38: whatever the quantity, zero and negative ones included, an add
\* raises no balance of any drug and a delete lowers none.
C38_AddNeverRaisesDeleteNeverLowers ==
    \A d \in drugs :
        /\ Added =>
               /\ Balance(warehouse_stock, d.id)
                      <= Balance(last.before.warehouse_stock, d.id)
               /\ Balance(pharmacy_stock, d.id)
                      <= Balance(last.before.pharmacy_stock, d.id)
        /\ Deleted =>
               /\ Balance(warehouse_stock, d.id)
                      >= Balance(last.before.warehouse_stock, d.id)
               /\ Balance(pharmacy_stock, d.id)
                      >= Balance(last.before.pharmacy_stock, d.id)

\* The last request was a call of prevent_medicine_cross_access.
PreventCall == last.op = "prevent_medicine_cross_access"

\* The drugs of the id of the last call, as the call found them.
NamedDrugs == { d \in last.before.drugs : d.id = last.medicine_id }

\* C39: prevent_medicine_cross_access raises exactly when the drug exists
\* and has a college other than the caller's; a drug of no college is
\* accessible to every college, and an id of no drug is not reported as
\* accessible.
C39_PreventRaisesIffOtherCollege ==
    PreventCall =>
        /\ last.status = 403
               <=> \E d \in NamedDrugs :
                       Truthy(d.college_id) /\ d.college_id # last.college_id
        /\ (\E d \in NamedDrugs : ~Truthy(d.college_id)) => last.returned
        /\ NamedDrugs = {} => ~last.returned

====
